---- MODULE Spec2Model ----
(***************************************************************************)
(* Client-side cart ledger and catalog cache of the El Xolito Mex landing  *)
(* page (landing-page/main.js, services/productService.js), and the        *)
(* session handling of services/authService.js with its forms.             *)
(*                                                                         *)
(* Representation                                                          *)
(*   - amounts (precio, price, totals) are integers in centavos;           *)
(*   - a JavaScript value that may be undefined/null is a sequence of      *)
(*     length at most one: << >> is undefined/null, <<v>> is the value v;  *)
(*   - a JSON object is a record that has exactly the keys that were       *)
(*     serialised (JSON.stringify omits keys whose value is undefined);    *)
(*   - the remote catalog is outside the repository: every answer it can   *)
(*     give is drawn from ProductResponses / CatalogResponses.             *)
(***************************************************************************)
EXTENDS Integers, Sequences, FiniteSets, TLC

(***************************************************************************)
(* Bounds of the model                                                     *)
(***************************************************************************)
\* units (sum of quantities) the cart and the suspended addItem calls may hold together
MaxUnits == 3

Ids == {"A", "B"}
Prices == {5000, 10000}
AddQtys == {1, 2}
UpdateQtys == {-1, 0, 1, 2}

\* auth-service calls that can be in flight at once
MaxCalls == 2

\* texts a visitor can leave in a quantity input (<input type="number">)
QuantityInputs == {<< >>, <<"x">>, <<"0">>, <<"1">>, <<"2">>, <<"-", "1">>, <<"1", "x">>}

Undefined == << >>

VARIABLES
    PRODUCTS,        \* main.js:3   the catalog cache
    productService,  \* window.productService is defined
    items,           \* Cart.items of the page's cart instance
    localStorage,    \* value stored under the key 'cart'
    dom,             \* what updateCartUI has written into the page
    cartDom,         \* the page has the cart modal elements (main.js:192)
    pending,         \* addItem calls suspended at main.js:125, in call order; a call
                     \* is abandoned once the page that made it has been left
    renders,         \* number of updateCartUI calls made by the last cart operation
    uncaught,        \* the last cart operation ended with a fault reaching its caller
    lastOp,          \* the last cart operation that completed
    session,         \* values stored under accessToken, refreshToken, currentUser
    calls,           \* the auth-service calls in flight, one per slot
    lastAuth,        \* the last auth-service call that returned to its caller
    submitted        \* the last login or register form handled

cartVars == <<PRODUCTS, productService, items, localStorage, dom, cartDom, pending,
              renders, uncaught, lastOp>>

authVars == <<session, calls, lastAuth, submitted>>

vars == <<cartVars, authVars>>

(***************************************************************************)
(* Generic helpers                                                         *)
(***************************************************************************)
Abs(n) == IF n < 0 THEN -n ELSE n

\* index of the first element whose id is `id`, 0 when there is none
\* (the position of what arr.find(x => x.id === id) returns)
findIndex(arr, id) ==
    IF \E i \in 1..Len(arr) : arr[i].id = id
    THEN CHOOSE i \in 1..Len(arr) : arr[i].id = id /\ \A j \in 1..(i - 1) : arr[j].id # id
    ELSE 0

\* arr.find(x => x.id === id): the first match, or undefined
find(arr, id) == IF findIndex(arr, id) = 0 THEN Undefined ELSE <<arr[findIndex(arr, id)]>>

(***************************************************************************)
(* Remote catalog (GET /products/{id}, GET /products?activo=1)             *)
(***************************************************************************)
nombreOf(id) == IF id = "A" THEN "Anillo" ELSE "Brazalete"
anteriorOf(id) == IF id = "A" THEN Undefined ELSE <<12000>>

\* the imagenes rows the backend sends with a product: none while it is at the
\* lower price; at the higher price two rows (the second is the principal one)
\* for A and one row, not marked principal, for B
imagenesOf(id, precio) ==
    IF precio = 5000 THEN << >>
    ELSE IF id = "A"
    THEN <<[ruta |-> "a1.jpg", es_principal |-> FALSE],
           [ruta |-> "a2.jpg", es_principal |-> TRUE]>>
    ELSE <<[ruta |-> "b1.jpg", es_principal |-> FALSE]>>

\* the price each product is listed at when the page loads
listPrice(id) == IF id = "A" THEN 10000 ELSE 5000

\* backend-shaped product records: every product at its list price, and B also at
\* the other price (the server-side price change of the model)
ApiProducts ==
    {ap \in {[id |-> i, nombre |-> nombreOf(i), precio |-> p,
              precio_anterior |-> anteriorOf(i), imagenes |-> imagenesOf(i, p)] :
                 i \in Ids, p \in Prices} :
        ap.precio = listPrice(ap.id) \/ ap.id = "B"}

\* what fetch() can produce for /products/{id}
ProductResponses ==
    {[net |-> "error", ok |-> FALSE, success |-> FALSE, product |-> Undefined],
     [net |-> "ok", ok |-> FALSE, success |-> FALSE, product |-> Undefined],
     [net |-> "ok", ok |-> TRUE, success |-> FALSE, product |-> Undefined],
     [net |-> "ok", ok |-> TRUE, success |-> TRUE, product |-> Undefined]}
    \cup {[net |-> "ok", ok |-> TRUE, success |-> TRUE, product |-> <<ap>>] : ap \in ApiProducts}

\* catalog resolution of an id succeeds: the remote answered with a product
Resolves(resp) ==
    resp.net = "ok" /\ resp.ok /\ resp.success /\ resp.product # Undefined

(***************************************************************************)
(* services/productService.js                                              *)
(***************************************************************************)
\* apiRequest: a network failure or a non-2xx status is thrown, else the body
productService_apiRequest(resp) ==
    IF resp.net = "error" \/ ~resp.ok
    THEN [threw |-> TRUE, success |-> FALSE, product |-> Undefined]
    ELSE [threw |-> FALSE, success |-> resp.success, product |-> resp.product]

\* getProductById of the service: never throws, reports success=false instead
productService_getProductById(resp) ==
    LET response == productService_apiRequest(resp) IN
    IF ~response.threw /\ response.success
    THEN [threw |-> FALSE, success |-> TRUE, product |-> response.product]
    ELSE [threw |-> FALSE, success |-> FALSE, product |-> Undefined]

\* getMainImage: the principal row's path, else the first row's, else the placeholder
\* (backend records carry no `image` field of their own)
getMainImage(product) ==
    IF Len(product.imagenes) = 0
    THEN "assets/placeholder.jpg"
    ELSE IF \E i \in 1..Len(product.imagenes) : product.imagenes[i].es_principal
         THEN product.imagenes[CHOOSE i \in 1..Len(product.imagenes) :
                                  /\ product.imagenes[i].es_principal
                                  /\ \A j \in 1..(i - 1) :
                                        ~product.imagenes[j].es_principal].ruta
         ELSE product.imagenes[1].ruta

\* formatProductForFrontend: backend field names to the canonical Product
formatProductForFrontend(apiProduct) ==
    [id |-> apiProduct.id,
     name |-> apiProduct.nombre,
     price |-> apiProduct.precio,
     precio_anterior |-> apiProduct.precio_anterior,
     image |-> getMainImage(apiProduct)]

(***************************************************************************)
(* main.js: catalog cache                                                  *)
(***************************************************************************)
\* getProductById, lines 80-83: the cached record, if any
getProductById_cached(PRODS, id) == find(PRODS, id)

\* faulty variant: a placeholder record instead of null when the lookup fails
getProductById_fetch_stub(svc, resp) ==
    LET result == productService_getProductById(resp) IN
    IF svc /\ result.success /\ result.product # Undefined
    THEN [threw |-> FALSE, product |-> <<formatProductForFrontend(result.product[1])>>]
    ELSE [threw |-> FALSE,
          product |-> <<[id |-> "?", name |-> "", price |-> 0,
                         precio_anterior |-> Undefined,
                         image |-> "assets/placeholder.jpg"]>>]

\* faulty variant: a fault of the request reaches the caller of the lookup
getProductById_fetch_uncaught(svc, resp) ==
    LET response == productService_apiRequest(resp) IN
    IF ~svc \/ response.threw
    THEN [threw |-> TRUE, product |-> Undefined]
    ELSE IF response.success /\ response.product # Undefined
         THEN [threw |-> FALSE,
               product |-> <<formatProductForFrontend(response.product[1])>>]
         ELSE [threw |-> FALSE, product |-> Undefined]

\* getProductById, lines 86-97: the remote lookup; faults are caught, null on failure
getProductById_fetch(svc, resp) ==
    IF svc
    THEN LET result == productService_getProductById(resp) IN
         IF result.threw
         THEN [threw |-> FALSE, product |-> Undefined]
         ELSE IF result.success /\ result.product # Undefined
              THEN [threw |-> FALSE,
                    product |-> <<formatProductForFrontend(result.product[1])>>]
              ELSE [threw |-> FALSE, product |-> Undefined]
    ELSE [threw |-> FALSE, product |-> Undefined]

listed(id) ==
    [id |-> id, nombre |-> nombreOf(id), precio |-> listPrice(id),
     precio_anterior |-> anteriorOf(id), imagenes |-> imagenesOf(id, listPrice(id))]

\* what fetch() can produce for /products?activo=1: a network failure, a non-2xx
\* status, success=false, or a list of the active products
CatalogResponses ==
    {[net |-> "error", ok |-> FALSE, success |-> FALSE, products |-> << >>],
     [net |-> "ok", ok |-> FALSE, success |-> FALSE, products |-> << >>],
     [net |-> "ok", ok |-> TRUE, success |-> FALSE, products |-> << >>],
     [net |-> "ok", ok |-> TRUE, success |-> TRUE, products |-> << >>],
     [net |-> "ok", ok |-> TRUE, success |-> TRUE, products |-> <<listed("A")>>],
     [net |-> "ok", ok |-> TRUE, success |-> TRUE,
      products |-> <<listed("A"), listed("B")>>]}

\* the bulk request delivered a (possibly empty) list
Delivers(resp) == resp.net = "ok" /\ resp.ok /\ resp.success

\* getAllProducts / getProductsByCategory of the service: apiRequest throws on a
\* network failure or a non-2xx status, success=false is thrown too, and the catch
\* turns every fault into success=false with an empty list
productService_getProducts(resp) ==
    IF resp.net = "error" \/ ~resp.ok \/ ~resp.success
    THEN [threw |-> FALSE, success |-> FALSE, products |-> << >>]
    ELSE [threw |-> FALSE, success |-> TRUE, products |-> resp.products]

\* faulty variant: a fault of the service reaches the caller of the bulk load
loadProductsFromAPI_uncaught(PRODS, svc, resp) ==
    IF ~svc \/ resp.net = "error" \/ ~resp.ok
    THEN [threw |-> TRUE, PRODUCTS |-> PRODS, returned |-> << >>]
    ELSE LET loaded == [i \in 1..Len(resp.products) |->
                           formatProductForFrontend(resp.products[i])]
         IN [threw |-> FALSE, PRODUCTS |-> loaded, returned |-> loaded]

\* loadProductsFromAPI: the new value of PRODUCTS and the list returned; an empty
\* list when the service never became available (lines 28-34), when the result is
\* not a non-empty success (lines 56-62) and when anything was thrown (lines 63-74)
loadProductsFromAPI(PRODS, svc, resp) ==
    IF ~svc
    THEN [threw |-> FALSE, PRODUCTS |-> PRODS, returned |-> << >>]
    ELSE LET result == productService_getProducts(resp) IN
         IF result.threw
         THEN [threw |-> FALSE, PRODUCTS |-> PRODS, returned |-> << >>]
         ELSE IF result.success /\ Len(result.products) > 0
              THEN LET loaded == [i \in 1..Len(result.products) |->
                                     formatProductForFrontend(result.products[i])]
                   IN [threw |-> FALSE, PRODUCTS |-> loaded, returned |-> loaded]
              ELSE [threw |-> FALSE, PRODUCTS |-> PRODS, returned |-> << >>]

\* what fetch() can produce for /products/category/{slug}: the failures, and the
\* category's list, in which a product may by now have another price than listed
CategoryResponses ==
    {[net |-> "error", ok |-> FALSE, success |-> FALSE, products |-> << >>],
     [net |-> "ok", ok |-> TRUE, success |-> TRUE, products |-> << >>]}
    \cup {[net |-> "ok", ok |-> TRUE, success |-> TRUE, products |-> <<ap>>] :
             ap \in {p \in ApiProducts : p # listed(p.id)}}

\* faulty variant: the records of the category are cached as the backend sent them
RECURSIVE mergeIntoCache_raw(_, _)
mergeIntoCache_raw(PRODS, filteredProducts) ==
    IF filteredProducts = << >> THEN PRODS
    ELSE LET p == [id |-> Head(filteredProducts).id,
                   nombre |-> Head(filteredProducts).name,
                   precio |-> Head(filteredProducts).price]
             index == findIndex(PRODS, p.id)
         IN mergeIntoCache_raw(IF index # 0 THEN [PRODS EXCEPT ![index] = p]
                               ELSE Append(PRODS, p),
                               Tail(filteredProducts))

\* loadCategoryProducts, lines 861-868: each record replaces the cached record of
\* its id, or is pushed when the id is not cached
RECURSIVE mergeIntoCache(_, _)
mergeIntoCache(PRODS, filteredProducts) ==
    IF filteredProducts = << >> THEN PRODS
    ELSE LET p == Head(filteredProducts)
             index == findIndex(PRODS, p.id)
         IN mergeIntoCache(IF index # 0 THEN [PRODS EXCEPT ![index] = p]
                           ELSE Append(PRODS, p),
                           Tail(filteredProducts))

\* loadCategoryProducts, lines 844-877: the new value of PRODUCTS
loadCategoryProducts(PRODS, svc, resp) ==
    IF ~svc THEN PRODS
    ELSE LET result == productService_getProducts(resp) IN
         IF ~result.threw /\ result.success /\ Len(result.products) > 0
         THEN mergeIntoCache(PRODS,
                  [i \in 1..Len(result.products) |->
                      formatProductForFrontend(result.products[i])])
         ELSE PRODS

(***************************************************************************)
(* main.js: persistence and display conversions                            *)
(***************************************************************************)
\* JSON.stringify of one cart line: keys with an undefined value are omitted
JSONstringifyLine(item) ==
    IF item.precio_anterior = Undefined
    THEN [id |-> item.id, name |-> item.name, price |-> item.price,
          image |-> item.image, quantity |-> item.quantity]
    ELSE [id |-> item.id, name |-> item.name, price |-> item.price,
          precio_anterior |-> item.precio_anterior[1], image |-> item.image,
          quantity |-> item.quantity]

JSONstringify(arr) == [i \in 1..Len(arr) |-> JSONstringifyLine(arr[i])]

\* JSON.parse of one stored line: an absent key reads as undefined
JSONparseLine(obj) ==
    [id |-> obj.id, name |-> obj.name, price |-> obj.price,
     precio_anterior |-> IF "precio_anterior" \in DOMAIN obj
                         THEN <<obj.precio_anterior>> ELSE Undefined,
     image |-> obj.image,
     quantity |-> obj.quantity]

\* faulty variant: the stored lines come back in the opposite order
JSONparse_reversed(text) ==
    [i \in 1..Len(text) |-> JSONparseLine(text[Len(text) + 1 - i])]

JSONparse(text) == [i \in 1..Len(text) |-> JSONparseLine(text[i])]

\* Intl.NumberFormat('es-MX', currency MXN): sign, pesos and two decimals
formatCurrency(mx) ==
    [negative |-> mx < 0, pesos |-> Abs(mx) \div 100, centavos |-> Abs(mx) % 100]

(***************************************************************************)
(* main.js: class Cart.  A cart operation is a function of                 *)
(*   c = [items, storage, dom, hasModal, renders]                          *)
(***************************************************************************)
loadFromStorage(storage) ==
    IF storage = Undefined THEN JSONparse(<< >>) ELSE JSONparse(storage[1])

saveToStorage(c) == [c EXCEPT !.storage = <<JSONstringify(c.items)>>]

\* faulty variant: the quantity is left out of the total
RECURSIVE getTotal_ignoresQuantity(_)
getTotal_ignoresQuantity(its) ==
    IF its = << >> THEN 0
    ELSE getTotal_ignoresQuantity(SubSeq(its, 1, Len(its) - 1)) + its[Len(its)].price

\* items.reduce((total, item) => total + item.price * item.quantity, 0)
RECURSIVE getTotal(_)
getTotal(its) ==
    IF its = << >> THEN 0
    ELSE getTotal(SubSeq(its, 1, Len(its) - 1))
         + (its[Len(its)].price * its[Len(its)].quantity)

\* items.reduce((total, item) => total + item.quantity, 0)
RECURSIVE getItemCount(_)
getItemCount(its) ==
    IF its = << >> THEN 0
    ELSE getItemCount(SubSeq(its, 1, Len(its) - 1)) + its[Len(its)].quantity

\* one .cart-item block of cartItems.innerHTML
renderItem(item) ==
    [id |-> item.id, name |-> item.name, image |-> item.image,
     price |-> formatCurrency(item.price),
     minus |-> item.quantity - 1, quantity |-> item.quantity, plus |-> item.quantity + 1,
     subtotal |-> formatCurrency(item.price * item.quantity)]

updateCartUI(c) ==
    LET count == getItemCount(c.items)
        badge == [c.dom EXCEPT !.dataCount = <<count>>]
        view  == IF ~c.hasModal THEN badge
                 ELSE IF Len(c.items) = 0
                 THEN [badge EXCEPT !.cartItemsDisplay = "none",
                                    !.cartEmptyDisplay = "block",
                                    !.checkoutDisabled = "true"]
                 ELSE [badge EXCEPT !.cartItemsDisplay = "block",
                                    !.cartEmptyDisplay = "none",
                                    !.checkoutDisabled = "false",
                                    !.cartItemsHTML =
                                        [i \in 1..Len(c.items) |-> renderItem(c.items[i])],
                                    !.cartTotal = <<formatCurrency(getTotal(c.items))>>]
    IN [c EXCEPT !.dom = view, !.renders = @ + 1]

\* faulty variant: a resolved product is always pushed as a new line
addItem_commit_alwaysPush(c, productId, quantity, product) ==
    IF product = Undefined THEN c
    ELSE updateCartUI(saveToStorage(
            [c EXCEPT !.items = Append(c.items,
                [id |-> product[1].id, name |-> product[1].name,
                 price |-> product[1].price,
                 precio_anterior |-> product[1].precio_anterior,
                 image |-> product[1].image,
                 quantity |-> quantity])]))

\* faulty variant: a repeated add refreshes the line from the product just looked up
addItem_commit_resync(c, productId, quantity, product) ==
    IF product = Undefined THEN c
    ELSE LET k == findIndex(c.items, productId)
             line == [id |-> product[1].id, name |-> product[1].name,
                      price |-> product[1].price,
                      precio_anterior |-> product[1].precio_anterior,
                      image |-> product[1].image,
                      quantity |-> quantity]
             its == IF k # 0
                    THEN [c.items EXCEPT
                             ![k] = [line EXCEPT !.id = c.items[k].id,
                                                 !.quantity = c.items[k].quantity + quantity]]
                    ELSE Append(c.items, line)
         IN updateCartUI(saveToStorage([c EXCEPT !.items = its]))

\* faulty variant: a new line is put at the head of the list
addItem_commit_unshift(c, productId, quantity, product) ==
    IF product = Undefined THEN c
    ELSE LET k == findIndex(c.items, productId)
             its == IF k # 0
                    THEN [c.items EXCEPT ![k].quantity = @ + quantity]
                    ELSE <<[id |-> product[1].id, name |-> product[1].name,
                            price |-> product[1].price,
                            precio_anterior |-> product[1].precio_anterior,
                            image |-> product[1].image,
                            quantity |-> quantity]>> \o c.items
         IN updateCartUI(saveToStorage([c EXCEPT !.items = its]))

\* addItem, lines 128-141: what runs once the product lookup has an answer
addItem_commit(c, productId, quantity, product) ==
    IF product = Undefined THEN c
    ELSE LET k == findIndex(c.items, productId)
             its == IF k # 0
                    THEN [c.items EXCEPT ![k].quantity = @ + quantity]
                    ELSE Append(c.items,
                                [id |-> product[1].id, name |-> product[1].name,
                                 price |-> product[1].price,
                                 precio_anterior |-> product[1].precio_anterior,
                                 image |-> product[1].image,
                                 quantity |-> quantity])
         IN updateCartUI(saveToStorage([c EXCEPT !.items = its]))

\* faulty variant: only the first matching line is removed
removeItem_first(c, productId) ==
    LET k == findIndex(c.items, productId) IN
    updateCartUI(saveToStorage(
        [c EXCEPT !.items = [i \in 1..(Len(c.items) - (IF k = 0 THEN 0 ELSE 1)) |->
                                IF k = 0 \/ i < k THEN c.items[i] ELSE c.items[i + 1]]]))

\* faulty variant: the view is projected before the line is removed
removeItem_stale(c, productId) ==
    LET shown == updateCartUI(c) IN
    saveToStorage(
        [shown EXCEPT !.items = SelectSeq(c.items, LAMBDA item : item.id # productId)])

removeItem(c, productId) ==
    updateCartUI(saveToStorage(
        [c EXCEPT !.items = SelectSeq(c.items, LAMBDA item : item.id # productId)]))

\* faulty variant: quantity 0 is stored instead of removing the line
updateQuantity_strict(c, productId, quantity) ==
    LET k == findIndex(c.items, productId) IN
    IF k # 0
    THEN IF quantity < 0
         THEN removeItem(c, productId)
         ELSE updateCartUI(saveToStorage([c EXCEPT !.items[k].quantity = quantity]))
    ELSE c

\* faulty variant: the new quantity is shown but not persisted
updateQuantity_nosave(c, productId, quantity) ==
    LET k == findIndex(c.items, productId) IN
    IF k # 0
    THEN IF quantity <= 0
         THEN removeItem(c, productId)
         ELSE updateCartUI([c EXCEPT !.items[k].quantity = quantity])
    ELSE c

\* faulty variant: the ledger applies the cap of the quantity inputs
updateQuantity_capped(c, productId, quantity) ==
    LET k == findIndex(c.items, productId) IN
    IF k # 0
    THEN IF quantity <= 0
         THEN removeItem(c, productId)
         ELSE updateCartUI(saveToStorage(
                  [c EXCEPT !.items[k].quantity = IF quantity > 10 THEN 10 ELSE quantity]))
    ELSE c

updateQuantity(c, productId, quantity) ==
    LET k == findIndex(c.items, productId) IN
    IF k # 0
    THEN IF quantity <= 0
         THEN removeItem(c, productId)
         ELSE updateCartUI(saveToStorage([c EXCEPT !.items[k].quantity = quantity]))
    ELSE c

\* the page as served, before any script has touched it
\* (the quantity selector of the product page is rendered with value="1", line 2239)
markup ==
    [dataCount |-> Undefined, cartItemsDisplay |-> "markup", cartEmptyDisplay |-> "markup",
     checkoutDisabled |-> "markup", cartItemsHTML |-> << >>, cartTotal |-> Undefined,
     productPageQuantity |-> <<"1">>]

\* constructor: load the persisted lines, then project them
Cart_constructor(storage, hasModal) ==
    updateCartUI([items |-> loadFromStorage(storage), storage |-> storage,
                  dom |-> markup, hasModal |-> hasModal, renders |-> 0])

(***************************************************************************)
(* main.js: a 'cart' value the page did not write itself.  The page writes *)
(* only JSON lists of lines, kept as <<lines>>; any other stored text t is *)
(* kept as <<"text", t>>.                                                  *)
(***************************************************************************)
ForeignTexts == {"", "{oops", "null", "{}", "7"}

Foreign(t) == <<"text", t>>

IsForeign(storage) == Len(storage) = 2

\* JSON.parse of a text that is not a list: a SyntaxError, or the kind of value read
JSONparse_text(t) ==
    IF t \in {"", "{oops"} THEN [threw |-> TRUE, kind |-> "none"]
    ELSE IF t = "null" THEN [threw |-> FALSE, kind |-> "null"]
    ELSE IF t = "{}" THEN [threw |-> FALSE, kind |-> "object"]
    ELSE [threw |-> FALSE, kind |-> "number"]

\* loadFromStorage, lines 107-113, on any stored value: an absent or empty text
\* reads as '[]', a SyntaxError is caught and gives [], and whatever JSON.parse
\* returns otherwise is returned as it is, list or not
loadFromStorage_found(storage) ==
    IF ~IsForeign(storage)
    THEN [isArray |-> TRUE, items |-> loadFromStorage(storage)]
    ELSE IF storage[2] = ""
    THEN [isArray |-> TRUE, items |-> JSONparse(<< >>)]
    ELSE IF JSONparse_text(storage[2]).threw
    THEN [isArray |-> TRUE, items |-> << >>]
    ELSE [isArray |-> FALSE, items |-> << >>]

\* constructor, lines 102-105, on any stored value: updateCartUI starts with
\* getItemCount (line 179), whose this.items.reduce (line 168) is a TypeError when
\* this.items is null, an object or a number; nothing has been projected by then
\* and `const cart = new Cart()` (line 235) never gets its value
Cart_constructor_found(storage, hasModal) ==
    LET loaded == loadFromStorage_found(storage) IN
    IF loaded.isArray
    THEN [threw |-> FALSE,
          cart |-> updateCartUI([items |-> loaded.items, storage |-> storage,
                                 dom |-> markup, hasModal |-> hasModal, renders |-> 0])]
    ELSE [threw |-> TRUE,
          cart |-> [items |-> << >>, storage |-> storage, dom |-> markup,
                    hasModal |-> hasModal, renders |-> 0]]

(***************************************************************************)
(* main.js: quantity inputs of the product detail and product page         *)
(***************************************************************************)
DigitChars == <<"0", "1", "2", "3", "4", "5", "6", "7", "8", "9">>

Digits == {DigitChars[i] : i \in 1..10}

DigitValue(ch) == (CHOOSE i \in 1..10 : DigitChars[i] = ch) - 1

\* value of the longest prefix of digits of str, read after acc
RECURSIVE parseDigits(_, _)
parseDigits(str, acc) ==
    IF str = << >> \/ Head(str) \notin Digits THEN acc
    ELSE parseDigits(Tail(str), (acc * 10) + DigitValue(Head(str)))

\* parseInt(text): an optional minus sign and the digits that follow; NaN
\* (undefined here) when no digit follows
parseInt(str) ==
    LET negative == str # << >> /\ Head(str) = "-"
        body == IF negative THEN Tail(str) ELSE str
    IN IF body = << >> \/ Head(body) \notin Digits THEN Undefined
       ELSE <<(IF negative THEN -1 ELSE 1) * parseDigits(body, 0)>>

\* `parseInt(quantityInput.value) || 1`: NaN and 0 are falsy, every other number
\* is passed on
inputQuantity(value) ==
    LET n == parseInt(value) IN
    IF n = Undefined \/ n[1] = 0 THEN 1 ELSE n[1]

\* the text an input shows after `input.value = n`, for n >= 0
RECURSIVE numberText(_)
numberText(n) ==
    IF n < 10 THEN <<DigitChars[n + 1]>>
    ELSE Append(numberText(n \div 10), DigitChars[(n % 10) + 1])

\* the limit the +/- buttons of a quantity selector compare with
QuantityCap == 10

\* increaseProductPageQuantity, lines 2284-2292 (increaseQuantity, lines 2022-2030,
\* is the same on the selector of the product modal)
increaseProductPageQuantity(d) ==
    LET currentValue == parseInt(d.productPageQuantity) IN
    IF currentValue # Undefined /\ currentValue[1] < QuantityCap
    THEN [d EXCEPT !.productPageQuantity = numberText(currentValue[1] + 1)]
    ELSE d

\* decreaseProductPageQuantity, lines 2294-2302
decreaseProductPageQuantity(d) ==
    LET currentValue == parseInt(d.productPageQuantity) IN
    IF currentValue # Undefined /\ currentValue[1] > 1
    THEN [d EXCEPT !.productPageQuantity = numberText(currentValue[1] - 1)]
    ELSE d

(***************************************************************************)
(* services/authService.js.  A call in flight is a record                  *)
(*   [op, pc, token, ...]: op is the exported function that was called, pc *)
(*   the fetch its apiRequest awaits ("request", "refresh" or "retry"),    *)
(*   token the access token read when apiRequest started (line 6).  The    *)
(*   other fields count what the request has done so far.                  *)
(***************************************************************************)
Slots == 1..MaxCalls
Tokens == {"t1", "t2"}
Users == {"ana"}
AuthOps == {"register", "login", "logout", "getCurrentUser"}

\* none of the three keys is stored
NoSession == [accessToken |-> Undefined, refreshToken |-> Undefined, currentUser |-> Undefined]

\* what fetch() and response.json() can produce for a request to /auth/...: a
\* network failure (or a body that is not JSON), a body with success=false under
\* status 200, 401 or 500, or a success carrying the data of the endpoint
AuthReplies ==
    {[net |-> "error", status |-> 0, success |-> FALSE, accessToken |-> Undefined,
      user |-> Undefined]}
    \cup {[net |-> "ok", status |-> st, success |-> FALSE, accessToken |-> Undefined,
           user |-> Undefined] : st \in {200, 401, 500}}
    \cup {[net |-> "ok", status |-> 200, success |-> TRUE, accessToken |-> <<t>>,
           user |-> <<u>>] : t \in Tokens, u \in Users}

IdleCall ==
    [op |-> "idle", pc |-> "idle", token |-> Undefined, detached |-> FALSE,
     unauthorized |-> FALSE, refreshes |-> 0, posts |-> 0, retries |-> 0,
     refreshed |-> FALSE, newToken |-> Undefined, before |-> NoSession]

\* apiRequest, lines 6-17: the stored access token is read and the request is sent
\* (`before` keeps what was stored when the exported function was called)
apiRequest_send(sess, op) ==
    [IdleCall EXCEPT !.op = op, !.pc = "request", !.token = sess.accessToken,
                     !.before = sess]

\* what an apiRequest step leaves: the stored session, the call, and whether
\* apiRequest has ended (by returning `data` or by throwing)
Pending(sess, call) ==
    [session |-> sess, call |-> call, ended |-> FALSE, threw |-> FALSE,
     data |-> CHOOSE r \in AuthReplies : r.net = "error"]

Returned(sess, call, data) ==
    [session |-> sess, call |-> call, ended |-> TRUE, threw |-> FALSE, data |-> data]

Thrown(sess, call) ==
    [session |-> sess, call |-> call, ended |-> TRUE, threw |-> TRUE,
     data |-> CHOOSE r \in AuthReplies : r.net = "error"]

\* apiRequest, lines 17-35, with refreshToken, lines 144-155: the answer to the
\* request.  A 401 on a request that carried a token calls refreshToken(), which
\* gives up at once when no refresh token is stored and else posts /auth/refresh
apiRequest_response(sess, call, reply) ==
    IF reply.net = "error" THEN Thrown(sess, call)
    ELSE IF reply.status = 200 THEN Returned(sess, call, reply)
    ELSE IF reply.status = 401 /\ call.token # Undefined
         THEN LET asked == [call EXCEPT !.refreshes = @ + 1] IN
              IF sess.refreshToken = Undefined
              THEN Thrown(sess, asked)
              ELSE Pending(sess, [asked EXCEPT !.pc = "refresh", !.posts = @ + 1])
         ELSE Thrown(sess, call)

\* faulty variant: the retry is handled like a first request, 401 included
apiRequest_retried_again(sess, call, reply) == apiRequest_response(sess, call, reply)

\* apiRequest, lines 27-29: the body of the retry is returned whatever its status
apiRequest_retried(sess, call, reply) ==
    IF reply.net = "error" THEN Thrown(sess, call) ELSE Returned(sess, call, reply)

\* refreshToken, lines 157-168, then apiRequest, lines 24-29: a successful refresh
\* stores the new access token and the request is sent again with the stored token
apiRequest_refreshed(sess, call, reply) ==
    IF reply.net = "ok" /\ reply.success
    THEN LET stored == [sess EXCEPT !.accessToken = reply.accessToken] IN
         Pending(stored, [call EXCEPT !.pc = "retry", !.refreshed = TRUE,
                                      !.retries = @ + 1,
                                      !.token = stored.accessToken,
                                      !.newToken = reply.accessToken])
    ELSE Thrown(sess, call)

\* what an exported function leaves when it returns to its caller
Done(sess, call, result, user) ==
    [session |-> sess, call |-> call, result |-> result, user |-> user]

\* register, lines 55-73, and login, lines 84-102: a success stores the three keys;
\* a thrown request and success=false both become a result with success: false
login_done(r) ==
    IF ~r.threw /\ r.data.success
    THEN Done([accessToken |-> r.data.accessToken, refreshToken |-> <<"r1">>,
               currentUser |-> r.data.user],
              IdleCall, "success", r.data.user)
    ELSE Done(r.session, IdleCall, "failure", Undefined)

\* faulty variant: the keys are removed in the try block, after the request,
\* so a request that throws leaves them stored
logout_done_inTry(r) ==
    IF r.threw THEN Done(r.session, IdleCall, "done", Undefined)
    ELSE Done(NoSession, IdleCall, "done", Undefined)

\* logout, lines 112-119: whatever the request did, the three keys are removed
logout_done(r) == Done(NoSession, IdleCall, "done", Undefined)

\* getCurrentUser, lines 127-138: a success stores and returns the user; success=false
\* returns null; a thrown request calls logout() without awaiting it and returns null
getCurrentUser_done(r) ==
    IF ~r.threw /\ r.data.success
    THEN Done([r.session EXCEPT !.currentUser = r.data.user], IdleCall, "user", r.data.user)
    ELSE IF ~r.threw
    THEN Done(r.session, IdleCall, "null", Undefined)
    ELSE Done(r.session, [apiRequest_send(r.session, "logout") EXCEPT !.detached = TRUE],
              "null", Undefined)

\* the continuation of the exported function whose apiRequest has ended
complete(r) ==
    IF r.call.op = "logout" THEN logout_done(r)
    ELSE IF r.call.op = "getCurrentUser" THEN getCurrentUser_done(r)
    ELSE login_done(r)

NoAuthCall ==
    [op |-> "none", detached |-> FALSE, unauthorized |-> FALSE, refreshes |-> 0,
     posts |-> 0, retries |-> 0, refreshed |-> FALSE, token |-> Undefined,
     newToken |-> Undefined, threw |-> FALSE, success |-> FALSE, result |-> "none",
     user |-> Undefined, cleared |-> FALSE]

\* the record kept of a call that has returned: what its apiRequest did (r), what
\* the exported function returned (d), and whether the three keys were then absent
AuthCallRecord(r, d) ==
    [op |-> r.call.op, detached |-> r.call.detached, unauthorized |-> r.call.unauthorized,
     refreshes |-> r.call.refreshes, posts |-> r.call.posts, retries |-> r.call.retries,
     refreshed |-> r.call.refreshed, token |-> r.call.token, newToken |-> r.call.newToken,
     threw |-> r.threw, success |-> ~r.threw /\ r.data.success, result |-> d.result,
     user |-> d.user, cleared |-> d.session = NoSession]

(***************************************************************************)
(* The login and register forms of main.js.  A field value is the sequence *)
(* of its characters; the confirmation is << >> when the form has no such  *)
(* field (`?.value` is then undefined) and <<value>> when it has.          *)
(***************************************************************************)
MinPasswordLength == 8

LowerCase == {"a"}
UpperCase == {"A"}

EmailInputs ==
    {<< >>, <<"a", "@", "a", ".", "a">>, <<"a", "@", "a">>, <<"a", ".", "a">>,
     <<"a", " ", "@", "a", ".", "a">>, <<"a", "@", ".", "a">>,
     <<"a", "@", "a", "@", "a", ".", "a">>}

PasswordInputs ==
    {<< >>, <<"a", "A", "1">>,
     <<"a", "a", "a", "a", "a", "a", "a", "a">>,
     <<"a", "a", "a", "a", "a", "a", "a", "A">>,
     <<"a", "a", "a", "a", "a", "a", "a", "1">>,
     <<"A", "A", "A", "A", "A", "A", "A", "1">>,
     <<"a", "a", "a", "a", "a", "a", "A", "1">>}

NameInputs == {<< >>, <<"a">>}

\* the confirmation field: absent, empty, equal to the password, or something else
ConfirmInputs(password) == {<< >>, << << >> >>, <<password>>, << <<"a", "A", "2">> >>}

\* isValidEmail, lines 1311-1314: /^[^\s@]+@[^\s@]+\.[^\s@]+$/
isValidEmail(email) ==
    \E i \in 1..Len(email) :
        /\ email[i] = "@" /\ i > 1
        /\ \A j \in 1..Len(email) : email[j] # " " /\ (email[j] = "@" => j = i)
        /\ \E k \in (i + 2)..(Len(email) - 1) : email[k] = "."

\* /(?=.*[a-z])(?=.*[A-Z])(?=.*\d)/.test(password), line 1184
hasAllClasses(password) ==
    /\ \E i \in 1..Len(password) : password[i] \in LowerCase
    /\ \E i \in 1..Len(password) : password[i] \in UpperCase
    /\ \E i \in 1..Len(password) : password[i] \in Digits

\* what the validation of a handler decides: the request goes out, or a message
\* is shown and the handler returns
Accepted == [sent |-> TRUE, message |-> Undefined]
Rejected(message) == [sent |-> FALSE, message |-> <<message>>]

\* handleLogin, lines 1102-1114
handleLogin_validate(email, password) ==
    IF email = << >> \/ password = << >> THEN Rejected("completa todos los campos")
    ELSE IF ~isValidEmail(email) THEN Rejected("ingresa un email valido")
    ELSE Accepted

\* handleRegister, lines 1161-1193
handleRegister_validate(nombre_completo, email, password, confirmPassword) ==
    IF nombre_completo = << >> \/ email = << >> \/ password = << >>
    THEN Rejected("completa todos los campos obligatorios")
    ELSE IF ~isValidEmail(email) THEN Rejected("ingresa un email valido")
    ELSE IF Len(password) < MinPasswordLength THEN Rejected("al menos 8 caracteres")
    ELSE IF ~hasAllClasses(password) THEN Rejected("mayuscula, minuscula y numero")
    ELSE IF confirmPassword # << >> /\ confirmPassword[1] # << >>
            /\ password # confirmPassword[1]
    THEN Rejected("las contrasenas no coinciden")
    ELSE Accepted

NoForm ==
    [handler |-> "none", name |-> << >>, email |-> << >>, password |-> << >>,
     confirm |-> << >>, sent |-> FALSE, message |-> Undefined]

(***************************************************************************)
(* State machine                                                           *)
(***************************************************************************)
Cart == [items |-> items, storage |-> localStorage, dom |-> dom,
         hasModal |-> cartDom, renders |-> 0]

HasLine(its, productId) == \E i \in 1..Len(its) : its[i].id = productId

\* size of a list of lines or of suspended calls: the quantities, sign dropped,
\* a line of quantity 0 counting as one unit
RECURSIVE Units(_)
Units(seq) ==
    IF seq = << >> THEN 0
    ELSE (IF Head(seq).quantity = 0 THEN 1 ELSE Abs(Head(seq).quantity)) + Units(Tail(seq))

\* the cap that keeps the model finite
InBounds(its, lookups) == Units(its) + Units(lookups) <= MaxUnits

\* a sequence without its n-th element
removeAt(seq, n) == [i \in 1..(Len(seq) - 1) |-> IF i < n THEN seq[i] ELSE seq[i + 1]]

Commit(c) ==
    /\ items' = c.items
    /\ localStorage' = c.storage
    /\ dom' = c.dom
    /\ renders' = c.renders

Op(name, hit, had, pos) == [op |-> name, hit |-> hit, had |-> had, pos |-> pos]

\* first visit: nothing persisted, `const cart = new Cart()` has run
Init ==
    /\ PRODUCTS = << >>
    /\ productService \in BOOLEAN
    /\ cartDom \in BOOLEAN
    /\ pending = << >>
    /\ localStorage = Undefined
    /\ LET c == Cart_constructor(Undefined, cartDom) IN
         /\ items = c.items
         /\ dom = c.dom
         /\ renders = c.renders
    /\ uncaught = FALSE
    /\ lastOp = Op("load", FALSE, FALSE, FALSE)
    /\ session = NoSession
    /\ calls = [s \in Slots |-> IdleCall]
    /\ lastAuth = NoAuthCall
    /\ submitted = NoForm

\* services/productService.js finishes loading and exports window.productService
ProductServiceReady ==
    /\ ~productService
    /\ productService' = TRUE
    /\ UNCHANGED <<authVars, PRODUCTS, items, localStorage, dom, cartDom, pending,
                   renders, uncaught, lastOp>>

\* main(): the bulk load at startup gets its answer
LoadProductsFromAPI(resp) ==
    /\ productService
    /\ PRODUCTS = << >>
    /\ PRODUCTS' = loadProductsFromAPI(PRODUCTS, productService, resp).PRODUCTS
    /\ PRODUCTS' # PRODUCTS
    /\ UNCHANGED <<authVars, productService, items, localStorage, dom, cartDom,
                   pending, renders, uncaught, lastOp>>

\* a category page gets the answer to its background refresh of the cache
LoadCategoryProducts(resp) ==
    /\ productService
    /\ PRODUCTS' = loadCategoryProducts(PRODUCTS, productService, resp)
    /\ PRODUCTS' # PRODUCTS
    /\ UNCHANGED <<authVars, productService, items, localStorage, dom, cartDom,
                   pending, renders, uncaught, lastOp>>

\* addItem on a cached product: lines 121-141 run without suspending
AddItemCached(productId, quantity) ==
    LET product == getProductById_cached(PRODUCTS, productId)
        c == addItem_commit(Cart, productId, quantity, product)
    IN /\ product # Undefined
       /\ InBounds(c.items, pending)
       /\ Commit(c)
       /\ uncaught' = FALSE
       /\ lastOp' = Op("addItem", TRUE, HasLine(items, productId), quantity > 0)
       /\ UNCHANGED <<authVars, PRODUCTS, productService, cartDom, pending>>

\* addItem on an uncached product while window.productService is missing:
\* getProductById answers null without any request, addItem warns and returns
AddItemNoService(productId, quantity) ==
    LET lookup == getProductById_fetch(productService, CHOOSE r \in ProductResponses : TRUE)
        c == addItem_commit(Cart, productId, quantity, lookup.product)
    IN /\ getProductById_cached(PRODUCTS, productId) = Undefined
       /\ ~productService
       /\ InBounds(c.items, pending)
       /\ Commit(c)
       /\ uncaught' = lookup.threw
       /\ lastOp' = Op("addItem", FALSE, FALSE, quantity > 0)
       /\ UNCHANGED <<authVars, PRODUCTS, productService, cartDom, pending>>

\* faulty variant: the line is put in the list before the lookup has answered
AddItemSuspend_optimistic(productId, quantity) ==
    /\ getProductById_cached(PRODUCTS, productId) = Undefined
    /\ productService
    /\ pending' = Append(pending, [productId |-> productId, quantity |-> quantity,
                                   abandoned |-> FALSE])
    /\ InBounds(items, pending')
    /\ items' = Append(items, [id |-> productId, name |-> nombreOf(productId),
                               price |-> listPrice(productId),
                               precio_anterior |-> Undefined,
                               image |-> "assets/placeholder.jpg",
                               quantity |-> quantity])
    /\ UNCHANGED <<authVars, PRODUCTS, productService, localStorage, dom, cartDom,
                   renders, uncaught, lastOp>>

\* addItem on an uncached product: suspended at `await getProductById(productId)`
AddItemSuspend(productId, quantity) ==
    /\ getProductById_cached(PRODUCTS, productId) = Undefined
    /\ productService
    /\ pending' = Append(pending, [productId |-> productId, quantity |-> quantity,
                                   abandoned |-> FALSE])
    /\ InBounds(items, pending')
    /\ UNCHANGED <<authVars, PRODUCTS, productService, items, localStorage, dom,
                   cartDom, renders, uncaught, lastOp>>

\* the remote answers the lookup of the n-th suspended addItem, which then finishes
AddItemResume(n, resp) ==
    /\ n \in 1..Len(pending)
    /\ ~pending[n].abandoned
    /\ LET call == pending[n]
           lookup == getProductById_fetch(TRUE, resp)
           c == addItem_commit(Cart, call.productId, call.quantity, lookup.product)
       IN /\ Commit(c)
          /\ uncaught' = lookup.threw
          /\ lastOp' = Op("addItem", Resolves(resp),
                          Resolves(resp) /\ HasLine(items, call.productId),
                          call.quantity > 0)
    /\ pending' = removeAt(pending, n)
    /\ UNCHANGED <<authVars, PRODUCTS, productService, cartDom>>

\* faulty variant: the continuation of an abandoned call runs on the page's cart
AbandonedLookupCompletes_onFreshCart(n, resp) ==
    /\ n \in 1..Len(pending)
    /\ pending[n].abandoned
    /\ LET call == pending[n]
           lookup == getProductById_fetch(TRUE, resp)
           c == addItem_commit(Cart, call.productId, call.quantity, lookup.product)
       IN /\ Commit(c)
          /\ lastOp' = Op("abandoned", Resolves(resp), FALSE, FALSE)
    /\ pending' = removeAt(pending, n)
    /\ UNCHANGED <<authVars, PRODUCTS, productService, cartDom, uncaught>>

\* the remote answers a lookup whose page has been left: lines 128-141 would run on
\* `this`, the Cart of the page that made the call, and that page is gone; nothing of
\* the current page is touched
AbandonedLookupCompletes(n, resp) ==
    /\ n \in 1..Len(pending)
    /\ pending[n].abandoned
    /\ lastOp' = Op("abandoned", Resolves(resp), FALSE, FALSE)
    /\ pending' = removeAt(pending, n)
    /\ UNCHANGED <<authVars, PRODUCTS, productService, items, localStorage, dom,
                   cartDom, renders, uncaught>>

RemoveItem(productId) ==
    /\ Commit(removeItem(Cart, productId))
    /\ uncaught' = FALSE
    /\ lastOp' = Op("removeItem", FALSE, HasLine(items, productId), FALSE)
    /\ UNCHANGED <<authVars, PRODUCTS, productService, cartDom, pending>>

UpdateQuantity(productId, quantity) ==
    /\ InBounds(updateQuantity(Cart, productId, quantity).items, pending)
    /\ Commit(updateQuantity(Cart, productId, quantity))
    /\ uncaught' = FALSE
    /\ lastOp' = Op("updateQuantity", FALSE, HasLine(items, productId),
                    HasLine(items, productId) /\ quantity > 0)
    /\ UNCHANGED <<authVars, PRODUCTS, productService, cartDom, pending>>

\* reload or navigation: the scripts start over, suspended calls are abandoned
\* (their requests are still in flight), and a new Cart is constructed from what
\* is stored
Reload ==
    /\ PRODUCTS' = << >>
    /\ productService' \in BOOLEAN
    /\ cartDom' \in BOOLEAN
    /\ pending' = [i \in 1..Len(pending) |-> [pending[i] EXCEPT !.abandoned = TRUE]]
    /\ LET c == Cart_constructor(localStorage, cartDom') IN Commit(c)
    /\ uncaught' = FALSE
    /\ lastOp' = Op("load", FALSE, FALSE, FALSE)
    /\ UNCHANGED authVars

\* addToCartFromDetail / addToCartFromProductPage on a cached product: the quantity
\* comes from the text of the quantity input
AddToCartFromDetail(productId, value) == AddItemCached(productId, inputQuantity(value))

(***************************************************************************)
(* The controls of the page that change the cart                           *)
(***************************************************************************)
\* the largest quantity a line takes in the model of the controls
MaxQuantity == 11

QuantitiesInBounds(its) == \A i \in 1..Len(its) : its[i].quantity <= MaxQuantity

\* the + button of the product page's quantity selector
IncreaseProductPageQuantity ==
    /\ dom' = increaseProductPageQuantity(dom)
    /\ UNCHANGED <<authVars, PRODUCTS, productService, items, localStorage, cartDom,
                   pending, renders, uncaught, lastOp>>

\* the - button of the product page's quantity selector
DecreaseProductPageQuantity ==
    /\ dom' = decreaseProductPageQuantity(dom)
    /\ UNCHANGED <<authVars, PRODUCTS, productService, items, localStorage, cartDom,
                   pending, renders, uncaught, lastOp>>

\* an add-to-cart button on a cached product: addItem runs without suspending
AddItemFromButton(productId, quantity) ==
    LET product == getProductById_cached(PRODUCTS, productId)
        c == addItem_commit(Cart, productId, quantity, product)
    IN /\ product # Undefined
       /\ QuantitiesInBounds(c.items)
       /\ Commit(c)
       /\ uncaught' = FALSE
       /\ lastOp' = Op("addItem", TRUE, HasLine(items, productId), quantity > 0)
       /\ UNCHANGED <<authVars, PRODUCTS, productService, cartDom, pending>>

\* addToCartFromProductPage, lines 2304-2311: the quantity is what the selector shows
AddToCartFromProductPage(productId) ==
    AddItemFromButton(productId, inputQuantity(dom.productPageQuantity))

\* addToCartFromFeatured, lines 2314-2317
AddToCartFromFeatured(productId) == AddItemFromButton(productId, 1)

\* a button of the n-th .cart-item block of the open cart view is pressed: its
\* onclick carries the id and the quantity written when the block was rendered
CartItemShown(n) ==
    cartDom /\ dom.cartItemsDisplay = "block" /\ n \in 1..Len(dom.cartItemsHTML)

CartButton(op, c) ==
    /\ QuantitiesInBounds(c.items)
    /\ Commit(c)
    /\ uncaught' = FALSE
    /\ lastOp' = op
    /\ UNCHANGED <<authVars, PRODUCTS, productService, cartDom, pending>>

\* line 217: cart.updateQuantity(id, quantity + 1)
CartIncrease(n) ==
    /\ CartItemShown(n)
    /\ LET shown == dom.cartItemsHTML[n] IN
       CartButton(Op("updateQuantity", FALSE, HasLine(items, shown.id),
                     HasLine(items, shown.id) /\ shown.plus > 0),
                  updateQuantity(Cart, shown.id, shown.plus))

\* line 215: cart.updateQuantity(id, quantity - 1)
CartDecrease(n) ==
    /\ CartItemShown(n)
    /\ LET shown == dom.cartItemsHTML[n] IN
       CartButton(Op("updateQuantity", FALSE, HasLine(items, shown.id),
                     HasLine(items, shown.id) /\ shown.minus > 0),
                  updateQuantity(Cart, shown.id, shown.minus))

\* line 220: cart.removeItem(id)
CartRemove(n) ==
    /\ CartItemShown(n)
    /\ LET shown == dom.cartItemsHTML[n] IN
       CartButton(Op("removeItem", FALSE, HasLine(items, shown.id), FALSE),
                  removeItem(Cart, shown.id))

(***************************************************************************)
(* State machine of the auth service                                       *)
(***************************************************************************)
\* one of the exported functions is called: its apiRequest sends the request.  The
\* call takes the first free slot
AuthCall(s, op) ==
    /\ calls[s].op = "idle"
    /\ \A t \in Slots : t < s => calls[t].op # "idle"
    /\ calls' = [calls EXCEPT ![s] = apiRequest_send(session, op)]
    /\ UNCHANGED <<cartVars, session, lastAuth, submitted>>

\* an apiRequest step r of the call in slot s takes effect: the call goes on to its
\* next fetch, or apiRequest has ended and the exported function runs to its return
Proceed(s, r) ==
    IF r.ended
    THEN LET d == complete(r) IN
         /\ session' = d.session
         /\ calls' = [calls EXCEPT ![s] = d.call]
         /\ lastAuth' = AuthCallRecord(r, d)
    ELSE /\ session' = r.session
         /\ calls' = [calls EXCEPT ![s] = r.call]
         /\ UNCHANGED lastAuth

\* the answer is a 401 to a request that carried an access token
Unauthorized(call, reply) ==
    reply.net = "ok" /\ reply.status = 401 /\ call.token # Undefined

\* the server answers the request of the call in slot s
AuthResponse(s, reply) ==
    /\ calls[s].pc = "request"
    /\ Proceed(s, apiRequest_response(session,
                   [calls[s] EXCEPT !.unauthorized = Unauthorized(calls[s], reply)], reply))
    /\ UNCHANGED <<cartVars, submitted>>

\* the server answers the POST /auth/refresh of the call in slot s
RefreshResponse(s, reply) ==
    /\ calls[s].pc = "refresh"
    /\ Proceed(s, apiRequest_refreshed(session, calls[s], reply))
    /\ UNCHANGED <<cartVars, submitted>>

\* the server answers the retry of the call in slot s
RetryResponse(s, reply) ==
    /\ calls[s].pc = "retry"
    /\ Proceed(s, apiRequest_retried(session, calls[s], reply))
    /\ UNCHANGED <<cartVars, submitted>>

\* the login form is submitted; its button stays disabled while the request runs
HandleLogin(email, password) ==
    /\ calls[1].op = "idle"
    /\ LET v == handleLogin_validate(email, password) IN
       /\ calls' = IF v.sent THEN [calls EXCEPT ![1] = apiRequest_send(session, "login")]
                   ELSE calls
       /\ submitted' = [handler |-> "login", name |-> << >>, email |-> email,
                        password |-> password, confirm |-> << >>,
                        sent |-> calls'[1].op # "idle", message |-> v.message]
    /\ UNCHANGED <<cartVars, session, lastAuth>>

\* the register form is submitted
HandleRegister(nombre_completo, email, password, confirmPassword) ==
    /\ calls[1].op = "idle"
    /\ LET v == handleRegister_validate(nombre_completo, email, password, confirmPassword) IN
       /\ calls' = IF v.sent THEN [calls EXCEPT ![1] = apiRequest_send(session, "register")]
                   ELSE calls
       /\ submitted' = [handler |-> "register", name |-> nombre_completo, email |-> email,
                        password |-> password, confirm |-> confirmPassword,
                        sent |-> calls'[1].op # "idle", message |-> v.message]
    /\ UNCHANGED <<cartVars, session, lastAuth>>

NextAuth ==
    \/ \E s \in Slots, op \in AuthOps : AuthCall(s, op)
    \/ \E s \in Slots, reply \in AuthReplies : AuthResponse(s, reply)
    \/ \E s \in Slots, reply \in AuthReplies : RefreshResponse(s, reply)
    \/ \E s \in Slots, reply \in AuthReplies : RetryResponse(s, reply)

Next ==
    \/ ProductServiceReady
    \/ \E resp \in CatalogResponses : LoadProductsFromAPI(resp)
    \/ \E resp \in CategoryResponses : LoadCategoryProducts(resp)
    \/ \E productId \in Ids, quantity \in AddQtys : AddItemCached(productId, quantity)
    \/ \E productId \in Ids, quantity \in AddQtys : AddItemNoService(productId, quantity)
    \/ \E productId \in Ids, quantity \in AddQtys : AddItemSuspend(productId, quantity)
    \/ \E n \in 1..MaxUnits, resp \in ProductResponses : AddItemResume(n, resp)
    \/ \E n \in 1..MaxUnits, resp \in ProductResponses : AbandonedLookupCompletes(n, resp)
    \/ \E productId \in Ids : RemoveItem(productId)
    \/ \E productId \in Ids, quantity \in UpdateQtys : UpdateQuantity(productId, quantity)
    \/ Reload

Spec == Init /\ [][Next]_vars

\* the cart driven from the product detail: the catalog is loaded at startup and
\* products are added with the quantity typed into the quantity input
NextFromDetail ==
    \/ ProductServiceReady
    \/ \E resp \in CatalogResponses : LoadProductsFromAPI(resp)
    \/ \E productId \in Ids, value \in QuantityInputs : AddToCartFromDetail(productId, value)
    \/ \E productId \in Ids : RemoveItem(productId)
    \/ \E productId \in Ids, quantity \in UpdateQtys : UpdateQuantity(productId, quantity)

SpecFromDetail == Init /\ [][NextFromDetail]_vars

\* a visitor who uses only the buttons of the page, the catalog being loaded
NextButtons ==
    \/ ProductServiceReady
    \/ \E resp \in CatalogResponses : LoadProductsFromAPI(resp)
    \/ IncreaseProductPageQuantity
    \/ DecreaseProductPageQuantity
    \/ \E productId \in Ids : AddToCartFromProductPage(productId)
    \/ \E productId \in Ids : AddToCartFromFeatured(productId)
    \/ \E n \in 1..Cardinality(Ids) : CartIncrease(n)
    \/ \E n \in 1..Cardinality(Ids) : CartDecrease(n)
    \/ \E n \in 1..Cardinality(Ids) : CartRemove(n)

SpecButtons == Init /\ [][NextButtons]_vars

\* the lines a cart can hold: a product snapshot and a quantity
StorableLines ==
    {[id |-> p.id, name |-> p.name, price |-> p.price,
      precio_anterior |-> p.precio_anterior, image |-> p.image, quantity |-> q] :
        p \in {formatProductForFrontend(ap) : ap \in ApiProducts}, q \in 1..MaxUnits}

\* what a page can find under 'cart': nothing, a list the site has written, or
\* a text of another origin
FoundCarts ==
    {Undefined}
        \cup {<<JSONstringify(its)>> :
                 its \in {l \in UNION {[1..n -> StorableLines] : n \in 0..MaxUnits} :
                             InBounds(l, << >>)}}
        \cup {Foreign(t) : t \in ForeignTexts}

\* script execution stopped at `const cart = new Cart()`: no handler of main.js
\* exists on this page
PageDead == lastOp.op = "load" /\ uncaught

\* something other than this page (another tab, an earlier version of the site,
\* the visitor's developer tools) stores a value under 'cart'
StorageWrittenElsewhere(found) ==
    /\ found # localStorage
    /\ localStorage' = found
    /\ UNCHANGED <<authVars, PRODUCTS, productService, items, dom, cartDom, pending,
                   renders, uncaught, lastOp>>

\* the page is opened or reloaded and constructs its Cart from whatever is stored
OpenPage ==
    /\ PRODUCTS' = << >>
    /\ productService' \in BOOLEAN
    /\ cartDom' \in BOOLEAN
    /\ pending' = [i \in 1..Len(pending) |-> [pending[i] EXCEPT !.abandoned = TRUE]]
    /\ LET made == Cart_constructor_found(localStorage, cartDom') IN
         /\ Commit(made.cart)
         /\ uncaught' = made.threw
    /\ lastOp' = Op("load", FALSE, FALSE, FALSE)
    /\ UNCHANGED authVars

\* the cart view's buttons, on a page whose script is running
RemoveItemOnPage(productId) == ~PageDead /\ RemoveItem(productId)

UpdateQuantityOnPage(productId, quantity) == ~PageDead /\ UpdateQuantity(productId, quantity)

NextStoredCart ==
    \/ \E found \in FoundCarts : StorageWrittenElsewhere(found)
    \/ OpenPage
    \/ \E productId \in Ids : RemoveItemOnPage(productId)
    \/ \E productId \in Ids, quantity \in UpdateQtys : UpdateQuantityOnPage(productId, quantity)

SpecStoredCart == Init /\ [][NextStoredCart]_vars

\* the auth service on a page whose cart is left alone
InitAuth == Init /\ ~productService /\ ~cartDom

SpecAuth == InitAuth /\ [][NextAuth]_vars

\* the two forms and the answers to the requests they send
NextForms ==
    \/ \E email \in EmailInputs, password \in PasswordInputs : HandleLogin(email, password)
    \/ \E nombre_completo \in NameInputs, email \in EmailInputs, password \in PasswordInputs :
          \E confirmPassword \in ConfirmInputs(password) :
              HandleRegister(nombre_completo, email, password, confirmPassword)
    \/ \E s \in Slots, reply \in AuthReplies : AuthResponse(s, reply)
    \/ \E s \in Slots, reply \in AuthReplies : RefreshResponse(s, reply)
    \/ \E s \in Slots, reply \in AuthReplies : RetryResponse(s, reply)

SpecForms == InitAuth /\ [][NextForms]_vars

TypeOK ==
    /\ productService \in BOOLEAN
    /\ cartDom \in BOOLEAN
    /\ Len(items) + Len(pending) <= MaxUnits
    /\ renders \in 0..2

(***************************************************************************)
(* Vocabulary of the properties                                            *)
(***************************************************************************)
\* sum of f[i] over the index set S
RECURSIVE SumOver(_, _)
SumOver(S, f) ==
    IF S = {} THEN 0
    ELSE LET i == CHOOSE j \in S : TRUE IN f[i] + SumOver(S \ {i}, f)

SumOfQuantities(its) == SumOver(DOMAIN its, [i \in DOMAIN its |-> its[i].quantity])

SumOfSubtotals(its) ==
    SumOver(DOMAIN its, [i \in DOMAIN its |-> its[i].price * its[i].quantity])

\* ids and quantities of a line list, in order
LineKeys(its) == [i \in 1..Len(its) |-> <<its[i].id, its[i].quantity>>]

LinesOf(its, productId) == {i \in 1..Len(its) : its[i].id = productId}

\* the last completed operation changed (or rewrote) the cart
Mutated ==
    \/ lastOp.op = "addItem" /\ lastOp.hit
    \/ lastOp.op = "removeItem"
    \/ lastOp.op = "updateQuantity" /\ lastOp.had

(***************************************************************************)
(* C1  In every state reached by addItem / removeItem / updateQuantity     *)
(* calls, getItemCount() is the sum of the quantities of the lines present *)
(* and getTotal() is the sum of snapshot price times quantity; with A at   *)
(* 100.00 x1 and B at 50.00 x2 that is a total of 200.00 and a count of 3. *)
(***************************************************************************)
C1_TotalsMatchLines ==
    /\ getItemCount(items) = SumOfQuantities(items)
    /\ getTotal(items) = SumOfSubtotals(items)
    /\ (LineKeys(items) = <<<<"A", 1>>, <<"B", 2>>>>
          /\ items[1].price = 10000 /\ items[2].price = 5000)
       => (getTotal(items) = 20000 /\ getItemCount(items) = 3)

C1_Witness ==
    /\ lastOp.op = "addItem"
    /\ LineKeys(items) = <<<<"A", 1>>, <<"B", 2>>>>
    /\ items[1].price = 10000 /\ items[2].price = 5000
    /\ getTotal(items) = 20000

(***************************************************************************)
(* C2  Upsert.  From every reachable cart: an addItem(x, a) whose lookup   *)
(* resolves, on a cart that has a line for x, adds a to that line and      *)
(* appends nothing; when the lookup resolves to the product x and the cart *)
(* has no line for x, one line for x with quantity a is appended, and a    *)
(* following addItem(x, b) leaves exactly one line for x, of quantity a+b. *)
(***************************************************************************)
CanonicalProducts == {formatProductForFrontend(ap) : ap \in ApiProducts}

Incremented(before, after, x, k) ==
    LET first == findIndex(before, x) IN
    /\ Len(after) = Len(before)
    /\ \A i \in 1..Len(before) :
          after[i] = IF i = first
                     THEN [before[i] EXCEPT !.quantity = before[i].quantity + k]
                     ELSE before[i]

Appended(before, after, x, k) ==
    /\ Len(after) = Len(before) + 1
    /\ SubSeq(after, 1, Len(before)) = before
    /\ LinesOf(after, x) = {Len(after)}
    /\ after[Len(after)].quantity = k

C3_NoDuplicateIds ==
    \A i, j \in 1..Len(items) : i # j => items[i].id # items[j].id

(***************************************************************************)
(* C4  removeItem is idempotent: from every reachable cart and for every   *)
(* id, removeItem(x) twice leaves the same line list and the same          *)
(* persisted cart as removeItem(x) once.                                   *)
(***************************************************************************)
C4_RemoveIdempotent ==
    \A x \in Ids :
        LET once == removeItem(Cart, x)
            twice == removeItem(once, x)
        IN /\ twice.items = once.items
           /\ twice.storage = once.storage
           /\ ~HasLine(once.items, x)

C4_Witness ==
    /\ lastOp.op = "removeItem" /\ ~lastOp.had
    /\ Len(items) >= 1
    /\ localStorage = <<JSONstringify(items)>>

(***************************************************************************)
(* C5  Round trip: a reload constructs the cart from the persisted value   *)
(* and gets the line list that was persisted, which is the list the cart   *)
(* held: same ids, same quantities, same order.                            *)
(***************************************************************************)
StoredKeys(storage) ==
    IF storage = Undefined THEN << >>
    ELSE [i \in 1..Len(storage[1]) |-> <<storage[1][i].id, storage[1][i].quantity>>]

C5_RoundTrip ==
    [][lastOp'.op = "load" =>
          /\ LineKeys(items') = StoredKeys(localStorage)
          /\ LineKeys(items') = LineKeys(items)]_vars

C5_Witness ==
    /\ lastOp.op = "load"
    /\ Len(items) = 2
    /\ items[1].id # items[2].id
    /\ localStorage # Undefined

(***************************************************************************)
(* C6  For q <= 0, updateQuantity(x, q) behaves as removeItem(x): from     *)
(* every reachable cart and for every id the resulting line list and the   *)
(* cart that loads from storage are the same, and x has no line left.      *)
(***************************************************************************)
C6_NonPositiveRemoves ==
    \A x \in Ids, q \in {u \in UpdateQtys : u <= 0} :
        LET upd == updateQuantity(Cart, x, q)
            rem == removeItem(Cart, x)
        IN /\ upd.items = rem.items
           /\ loadFromStorage(upd.storage) = loadFromStorage(rem.storage)
           /\ ~HasLine(upd.items, x)

C6_Witness ==
    /\ lastOp.op = "updateQuantity" /\ lastOp.had /\ ~lastOp.pos
    /\ Len(items) = 1

(***************************************************************************)
(* C7  An addItem whose catalog resolution fails (remote error, unknown    *)
(* id, success=false, or product service not loaded) is a no-op: the line  *)
(* list and the persisted cart are unchanged and no fault reaches the      *)
(* caller.                                                                 *)
(***************************************************************************)
C7_FailedLookupIsNoOp ==
    [][(lastOp'.op = "addItem" /\ ~lastOp'.hit) =>
          /\ items' = items
          /\ localStorage' = localStorage
          /\ ~uncaught']_vars

C7_Witness ==
    /\ lastOp.op = "addItem" /\ ~lastOp.hit
    /\ productService
    /\ Len(items) >= 1
    /\ ~uncaught

(***************************************************************************)
(* C8  Between cart operations the persisted 'cart' value deserialises to  *)
(* exactly the line list of the cart, and after a mutating operation it is *)
(* the serialisation of the full line list.                                *)
(***************************************************************************)
C8_PersistedMatchesCart ==
    /\ loadFromStorage(localStorage) = items
    /\ Mutated => localStorage = <<JSONstringify(items)>>

C8_Witness ==
    /\ lastOp.op = "updateQuantity" /\ lastOp.had /\ lastOp.pos
    /\ Len(items) = 2
    /\ localStorage = <<JSONstringify(items)>>

(***************************************************************************)
(* C9  Every mutation (a resolved addItem, a removeItem, an updateQuantity *)
(* on a present line, whatever the quantity) runs the re-projection        *)
(* exactly once, on the line list as it is after the mutation: the badge   *)
(* shows the item count, an empty cart shows the empty state, and a        *)
(* non-empty cart lists exactly the current lines.                         *)
(***************************************************************************)
C9_RenderedOnceAndFresh ==
    Mutated =>
        /\ renders = 1
        /\ dom.dataCount = <<SumOfQuantities(items)>>
        /\ (cartDom /\ Len(items) = 0) =>
              /\ dom.cartItemsDisplay = "none"
              /\ dom.cartEmptyDisplay = "block"
              /\ dom.checkoutDisabled = "true"
        /\ (cartDom /\ Len(items) > 0) =>
              /\ dom.cartItemsDisplay = "block"
              /\ dom.cartEmptyDisplay = "none"
              /\ dom.checkoutDisabled = "false"
              /\ Len(dom.cartItemsHTML) = Len(items)
              /\ \A i \in 1..Len(items) :
                    /\ dom.cartItemsHTML[i].id = items[i].id
                    /\ dom.cartItemsHTML[i].quantity = items[i].quantity
                    /\ dom.cartItemsHTML[i].price = formatCurrency(items[i].price)

C9_Witness ==
    /\ lastOp.op = "updateQuantity" /\ lastOp.had /\ ~lastOp.pos
    /\ cartDom
    /\ renders = 1
    /\ Len(items) = 1

(***************************************************************************)
(* C10  After the re-projection of every mutation the total shown in the   *)
(* cart view is the sum over the current lines of price times quantity,    *)
(* the empty cart included (total 0).                                      *)
(***************************************************************************)
\* the static page is taken to show a zero total until a script writes one
displayedTotal == IF dom.cartTotal = Undefined THEN formatCurrency(0) ELSE dom.cartTotal[1]

C10_DisplayedTotal ==
    (Mutated /\ cartDom) => displayedTotal = formatCurrency(SumOfSubtotals(items))

(***************************************************************************)
(* C11  While an addItem is suspended on its catalog lookup the cart shows *)
(* committed state only: suspending changes neither the line list, nor     *)
(* getTotal, nor getItemCount, nor the stored cart, nor the view; as long  *)
(* as calls are suspended the line list is the persisted one; and a step   *)
(* that changes the line list stores the new list in that same step.       *)
(***************************************************************************)
C11_SuspendedAddIsInvisible ==
    [][/\ Len(pending') > Len(pending) =>
             /\ items' = items
             /\ getTotal(items') = getTotal(items)
             /\ getItemCount(items') = getItemCount(items)
             /\ localStorage' = localStorage
             /\ dom' = dom
       /\ Len(pending') > 0 => loadFromStorage(localStorage') = items'
       /\ items' # items => localStorage' = <<JSONstringify(items')>>]_vars

C11_Witness ==
    \E n \in 1..Len(pending) :
        /\ ~pending[n].abandoned
        /\ HasLine(items, pending[n].productId)
        /\ lastOp.op = "updateQuantity" /\ lastOp.had

C13_FetchedIdIsCached ==
    [][\A n \in 1..Len(pending) :
          (/\ ~pending[n].abandoned
           /\ pending' = removeAt(pending, n)
           /\ lastOp'.op = "addItem" /\ lastOp'.hit)
          => getProductById_cached(PRODUCTS', pending[n].productId) # Undefined]_vars

(***************************************************************************)
(* C14  Catalog operations never throw to their caller.  Whatever the      *)
(* remote does (network error, non-2xx status, success=false, unknown id)  *)
(* and also when the product service is not loaded, the lookup by id       *)
(* returns null and the bulk load returns an empty list; a not-found       *)
(* answer and a network error give the same returned value; and no cart    *)
(* operation that looked a product up ended with a fault.                  *)
(***************************************************************************)
NetworkError == CHOOSE resp \in ProductResponses : resp.net = "error"

NotFound == {resp \in ProductResponses : resp.net = "ok" /\ ~Resolves(resp)}

C14_CatalogNeverThrows ==
    /\ \A svc \in {productService, FALSE}, resp \in ProductResponses :
          LET lookup == getProductById_fetch(svc, resp) IN
          /\ ~lookup.threw
          /\ (~svc \/ ~Resolves(resp)) => lookup.product = Undefined
    /\ \A resp \in NotFound :
          getProductById_fetch(productService, resp)
              = getProductById_fetch(productService, NetworkError)
    /\ \A svc \in {productService, FALSE}, resp \in CatalogResponses :
          LET load == loadProductsFromAPI(PRODUCTS, svc, resp) IN
          /\ ~load.threw
          /\ (~svc \/ ~Delivers(resp)) =>
                (load.returned = << >> /\ load.PRODUCTS = PRODUCTS)
    /\ ~uncaught

C14_Witness ==
    /\ lastOp.op = "addItem" /\ ~lastOp.hit
    /\ ~productService
    /\ PRODUCTS = << >>
    /\ ~uncaught

(***************************************************************************)
(* C15  Every record in the catalog cache is a canonical Product, the      *)
(* result of formatProductForFrontend on a backend record: it has the      *)
(* canonical field names and none of the backend's, whether the bulk load  *)
(* or the per-category refresh put it there.                               *)
(***************************************************************************)
ProductFields == {"id", "name", "price", "precio_anterior", "image"}

C15_CacheIsCanonical ==
    \A i \in 1..Len(PRODUCTS) :
        /\ DOMAIN PRODUCTS[i] = ProductFields
        /\ PRODUCTS[i] \in CanonicalProducts

C15_Witness ==
    /\ Len(PRODUCTS) = 2
    /\ PRODUCTS[1].price = listPrice(PRODUCTS[1].id)
    /\ PRODUCTS[2].price # listPrice(PRODUCTS[2].id)

(***************************************************************************)
(* C19  Every cart line has a quantity of at least 1, whatever sequence of *)
(* addItem, removeItem and updateQuantity calls is made with the           *)
(* quantities the pages pass from their quantity inputs.                   *)
(***************************************************************************)
C19_PositiveQuantities ==
    \A i \in 1..Len(items) : items[i].quantity >= 1

(***************************************************************************)
(* C20  The snapshot of a cart line (name, price, image) never changes     *)
(* while the line exists: in every step either every line keeps its place, *)
(* id and snapshot (lines may be appended, quantities may change), or the  *)
(* lines of one id are removed and the others are kept as they are.  No    *)
(* catalog load, category refresh, changed server price, repeated addItem, *)
(* updateQuantity or reload alters a snapshot.                             *)
(***************************************************************************)
Snapshot(line) ==
    [id |-> line.id, name |-> line.name, price |-> line.price, image |-> line.image]

RefreshedAtMostOnce(c) ==
    /\ c.refreshes <= 1 /\ c.retries <= 1 /\ c.posts <= c.refreshes
    /\ c.refreshes = (IF c.unauthorized THEN 1 ELSE 0)
    /\ c.retries = (IF c.refreshed THEN 1 ELSE 0)
    /\ c.refreshed => c.unauthorized /\ c.posts = 1
    /\ c.retries = 1 => c.newToken # Undefined /\ c.token = c.newToken

GetCurrentUser401 ==
    lastAuth.op = "getCurrentUser" /\ lastAuth.unauthorized

\* the part of C17 the code meets: one refresh is attempted; after a successful
\* refresh /auth/me is sent once more and a retry that succeeds makes getCurrentUser
\* return the user; after a failed refresh getCurrentUser returns no user
C17_RefreshAndRetry ==
    GetCurrentUser401 =>
        /\ lastAuth.refreshes = 1
        /\ lastAuth.refreshed =>
              /\ lastAuth.retries = 1
              /\ lastAuth.success => lastAuth.result = "user" /\ lastAuth.user # Undefined
        /\ ~lastAuth.refreshed =>
              /\ lastAuth.retries = 0
              /\ lastAuth.result = "null" /\ lastAuth.user = Undefined

\* C17: when getCurrentUser returns after a 401 on /auth/me, one refresh was
\* attempted; after a successful refresh /auth/me was sent once more and
\* getCurrentUser returned the user; after a failed refresh getCurrentUser returned
\* no user and none of accessToken, refreshToken and currentUser is stored
C17_GetCurrentUserAfter401 ==
    /\ C17_RefreshAndRetry
    /\ GetCurrentUser401 /\ ~lastAuth.refreshed => lastAuth.cleared

\* the logout started by a getCurrentUser that failed has been answered: only then
\* are the keys removed
C17_DetachedLogoutClears ==
    lastAuth.op = "logout" /\ lastAuth.detached => lastAuth.cleared


\* the password is weak: shorter than 8 characters, or lacking a lower-case letter,
\* an upper-case letter or a digit
WeakPassword(password) ==
    \/ Len(password) < 8
    \/ \A i \in 1..Len(password) : password[i] \notin LowerCase
    \/ \A i \in 1..Len(password) : password[i] \notin UpperCase
    \/ \A i \in 1..Len(password) : password[i] \notin Digits

\* what the form just handled should have been stopped for
InvalidForm ==
    \/ submitted.handler \in {"login", "register"} /\
          (submitted.email = << >> \/ submitted.password = << >>
           \/ ~isValidEmail(submitted.email))
    \/ submitted.handler = "register" /\
          (\/ submitted.name = << >>
           \/ WeakPassword(submitted.password)
           \/ submitted.confirm # << >> /\ submitted.confirm[1] # submitted.password)

\* C18: a login form with an empty field or a malformed email, and a register form
\* with an empty required field, a malformed email, a weak password or a
\* confirmation field whose value differs from the password, sends no auth-service
\* request and shows a message
C18_ValidationBeforeNetwork ==
    InvalidForm => ~submitted.sent /\ submitted.message # Undefined


(***************************************************************************)
(* C21  From every reachable cart, for every id x and every q > 0 (small   *)
(* or far above the cap of the quantity inputs): when x has a line,        *)
(* updateQuantity(x, q) leaves the first line of x with quantity exactly   *)
(* q, every other line as it was, and persists the list; when x has no     *)
(* line it changes nothing: no line, no stored value, no projection.        *)
(***************************************************************************)
PositiveQtys == {1, 2, 10, 11, 1000}

C22_ButtonsKeepCap ==
    \A i \in 1..Len(items) : items[i].quantity <= 10


(***************************************************************************)
(* C23  Two addItem calls for the same uncached id that overlap are two    *)
(* suspended calls, each with its own request; when both lookups have      *)
(* been answered with a product, the cart (which had no line for the id)   *)
(* holds exactly one line for that id, whose quantity is the sum of the    *)
(* two requested quantities.                                               *)
(***************************************************************************)
OverlappingAdds ==
    {mn \in (1..Len(pending)) \X (1..Len(pending)) :
        /\ mn[1] < mn[2]
        /\ pending[mn[1]].productId = pending[mn[2]].productId
        /\ ~pending[mn[1]].abandoned /\ ~pending[mn[2]].abandoned}

\* the cart after the two calls of the pair have been answered r1 (the earlier call)
\* and r2, the earlier or the later call being answered first
BothCompleted(mn, r1, r2, earlierFirst) ==
    LET a == pending[mn[1]]
        b == pending[mn[2]]
        pa == getProductById_fetch(TRUE, r1).product
        pb == getProductById_fetch(TRUE, r2).product
    IN IF earlierFirst
       THEN addItem_commit(addItem_commit(Cart, a.productId, a.quantity, pa),
                           b.productId, b.quantity, pb)
       ELSE addItem_commit(addItem_commit(Cart, b.productId, b.quantity, pb),
                           a.productId, a.quantity, pa)

OneLineWithSum(its, x, total) ==
    \E i \in 1..Len(its) : LinesOf(its, x) = {i} /\ its[i].quantity = total

C23_OverlappingAddsSum ==
    \A mn \in OverlappingAdds :
        \A r1 \in ProductResponses, r2 \in ProductResponses, earlierFirst \in BOOLEAN :
            LET x == pending[mn[1]].productId IN
            (Resolves(r1) /\ Resolves(r2) /\ ~HasLine(items, x)) =>
                OneLineWithSum(BothCompleted(mn, r1, r2, earlierFirst).items, x,
                               pending[mn[1]].quantity + pending[mn[2]].quantity)

\* the same when both answers carry the record of the id that was asked for
C23_SumWhenRecordsMatch ==
    \A mn \in OverlappingAdds :
        \A r1 \in ProductResponses, r2 \in ProductResponses, earlierFirst \in BOOLEAN :
            LET x == pending[mn[1]].productId IN
            (/\ Resolves(r1) /\ Resolves(r2) /\ ~HasLine(items, x)
             /\ r1.product[1].id = x /\ r2.product[1].id = x) =>
                OneLineWithSum(BothCompleted(mn, r1, r2, earlierFirst).items, x,
                               pending[mn[1]].quantity + pending[mn[2]].quantity)

\* two calls for one id are suspended at once: nothing has merged their requests
C23_TwoRequestsInFlight ==
    \E mn \in OverlappingAdds : ~HasLine(items, pending[mn[1]].productId)


(***************************************************************************)
(* C24  An addItem has just been suspended at its lookup; the visitor then *)
(* invokes one more mutation (removeItem, updateQuantity, or an addItem of *)
(* a cached product), and the lookup is answered afterwards.  The line     *)
(* list that results is the one obtained by running the suspended addItem  *)
(* first and the other mutation second, the order of their invocation.     *)
(* (Answers are taken to carry the record of the id asked for.)            *)
(***************************************************************************)
\* the answers whose record, if any, is the one of productId
AnswersFor(productId) ==
    {r \in ProductResponses : Resolves(r) => r.product[1].id = productId}

\* the line list when the suspended call ends before (invocation order) or after
\* (what happens) the removeItem(x) invoked during its lookup
RemoveInvokedAfter(call, product, x) ==
    removeItem(addItem_commit(Cart, call.productId, call.quantity, product), x).items
RemoveRunsBefore(call, product, x) ==
    addItem_commit(removeItem(Cart, x), call.productId, call.quantity, product).items

UpdateInvokedAfter(call, product, x, q) ==
    updateQuantity(addItem_commit(Cart, call.productId, call.quantity, product), x, q).items
UpdateRunsBefore(call, product, x, q) ==
    addItem_commit(updateQuantity(Cart, x, q), call.productId, call.quantity, product).items

AddInvokedAfter(call, product, y, k) ==
    addItem_commit(addItem_commit(Cart, call.productId, call.quantity, product),
                   y, k, getProductById_cached(PRODUCTS, y)).items
AddRunsBefore(call, product, y, k) ==
    addItem_commit(addItem_commit(Cart, y, k, getProductById_cached(PRODUCTS, y)),
                   call.productId, call.quantity, product).items

C24_InvocationOrder ==
    [][(pending = << >> /\ Len(pending') = 1) =>
          LET call == pending'[1] IN
          \A r \in AnswersFor(call.productId) :
              LET product == getProductById_fetch(TRUE, r).product IN
              /\ \A x \in Ids :
                    RemoveRunsBefore(call, product, x) = RemoveInvokedAfter(call, product, x)
              /\ \A x \in Ids, q \in UpdateQtys :
                    UpdateRunsBefore(call, product, x, q)
                        = UpdateInvokedAfter(call, product, x, q)
              /\ \A y \in Ids, k \in AddQtys :
                    getProductById_cached(PRODUCTS, y) # Undefined =>
                        AddRunsBefore(call, product, y, k) = AddInvokedAfter(call, product, y, k)
      ]_vars

\* the line list has grown by one line: an addItem has created a line
LineCreated == Len(items') = Len(items) + 1

\* the n-th suspended addItem has just finished (its call left the suspended ones)
Resumed(n) ==
    /\ n \in 1..Len(pending)
    /\ ~pending[n].abandoned
    /\ pending' = removeAt(pending, n)

\* C25: every line created by addItem(x, q) carries the id x that was requested,
\* whatever record the catalog returned for the lookup: for the suspended call that
\* resumes and for the call served from the cache
C25_LineCarriesRequestedId ==
    [][LineCreated =>
          /\ \A n \in 1..Len(pending) :
                Resumed(n) => items'[Len(items')].id = pending[n].productId
          /\ (pending' = pending /\ lastOp'.op = "addItem") =>
                \E x \in Ids :
                    /\ items' = addItem_commit(Cart, x, items'[Len(items')].quantity,
                                               getProductById_cached(PRODUCTS, x)).items
                    /\ items'[Len(items')].id = x
      ]_vars

\* C25, the part the code keeps: a line created from a cached product carries the
\* requested id (the cache is searched by strict equality on that id)
C25_CachedLineCarriesId ==
    [][(LineCreated /\ pending' = pending /\ lastOp'.op = "addItem") =>
          \E x \in Ids :
              /\ items' = addItem_commit(Cart, x, items'[Len(items')].quantity,
                                         getProductById_cached(PRODUCTS, x)).items
              /\ items'[Len(items')].id = x
      ]_vars


(***************************************************************************)
(* C26  A cart mutation on id x leaves every line with a different id      *)
(* unchanged (quantity and snapshot) and keeps the remaining lines in      *)
(* their order: a new line is appended at the end, a line whose quantity   *)
(* changes keeps its position, and a removal leaves exactly the lines of   *)
(* the other ids, in order.  Checked for addItem, removeItem and           *)
(* updateQuantity on every reachable cart, for every id, quantity and      *)
(* catalog answer of the model.                                            *)
(***************************************************************************)
\* the lines of `its` whose id is not x, in their order
OtherLines(its, x) == SelectSeq(its, LAMBDA line : line.id # x)

Frame(before, after, x) ==
    /\ Len(after) > Len(before) => after = Append(before, after[Len(after)])
    /\ Len(after) = Len(before) =>
          \A i \in 1..Len(before) :
              after[i] = IF before[i].id = x
                         THEN [before[i] EXCEPT !.quantity = after[i].quantity]
                         ELSE before[i]
    /\ Len(after) < Len(before) => after = OtherLines(before, x)

\* what the lookup of addItem(x, ..) can hand to lines 128-141
LookedUp(x) ==
    {getProductById_cached(PRODUCTS, x)}
        \cup {getProductById_fetch(TRUE, r).product : r \in ProductResponses}

C26_OtherLinesUntouched ==
    \A x \in Ids :
        /\ \A q \in AddQtys, product \in LookedUp(x) :
              Frame(items, addItem_commit(Cart, x, q, product).items, x)
        /\ Frame(items, removeItem(Cart, x).items, x)
        /\ \A q \in UpdateQtys \cup PositiveQtys :
              Frame(items, updateQuantity(Cart, x, q).items, x)

\* removeItem has just taken the lines of one id out of a cart that still holds,
\* and has persisted, a line of another id
C26_Witness ==
    /\ lastOp.op = "removeItem" /\ lastOp.had
    /\ Len(items) >= 1
    /\ Len(localStorage) = 1 /\ localStorage[1] = JSONstringify(items)


(***************************************************************************)
(* C28  When logout() returns, accessToken, refreshToken and currentUser   *)
(* are all absent, whatever happened to its request: a success, an error   *)
(* status, a 401 followed by a successful or a failed refresh, a network   *)
(* failure.  Stated for a logout that returns while no other auth call is  *)
(* in progress.                                                            *)
(***************************************************************************)
\* the call in slot s, a logout(), returns in this step
LogoutReturns(s) == calls[s].op = "logout" /\ calls'[s].op = "idle"

\* no call other than the one in slot s is in progress
Alone(s) == \A t \in Slots \ {s} : calls[t].op = "idle"

C28_LogoutClearsSession ==
    [][\A s \in Slots : (LogoutReturns(s) /\ Alone(s)) => session' = NoSession]_vars

\* a logout() called with a session stored has returned, after a 401 and with its
\* request thrown in the end; nothing else is in progress and the keys are absent
C28_Witness ==
    /\ lastAuth.op = "logout" /\ ~lastAuth.detached
    /\ lastAuth.unauthorized /\ lastAuth.threw
    /\ \A s \in Slots : calls[s].op = "idle"
    /\ session = NoSession


(***************************************************************************)
(* C29  The keys a successful login or register has stored are not removed *)
(* by a logout that was started before: when the logout that a failed      *)
(* getCurrentUser fired without awaiting it returns, and the last call to  *)
(* have returned since it was fired is a login or register that succeeded, *)
(* the stored session is left as it is.                                    *)
(***************************************************************************)
\* the last call that returned is a login or register that stored a session
LoggedInLast ==
    lastAuth.op \in {"login", "register"} /\ lastAuth.result = "success"

\* the logout in slot s was fired by getCurrentUser's failure path.  Firing it
\* records the getCurrentUser call as the last one returned, so while LoggedInLast
\* holds the logout was started before that login stored its keys
FiredEarlier(s) == calls[s].op = "logout" /\ calls[s].detached

C29_EarlierLogoutKeepsLogin ==
    [][\A s \in Slots :
          (LogoutReturns(s) /\ FiredEarlier(s) /\ LoggedInLast) => session' = session
      ]_vars

\* the interleaving of the claim is reached: a fired, un-awaited logout is still in
\* progress when a login that succeeded has stored its three keys
C29_LoginOvertakesLogout ==
    /\ LoggedInLast
    /\ \E s \in Slots : FiredEarlier(s)
    /\ session.accessToken # Undefined /\ session.refreshToken # Undefined
    /\ session.currentUser # Undefined


(***************************************************************************)
(* C30  A login or register that fails leaves the stored session as it     *)
(* was: when login() or register() returns success=false, accessToken,     *)
(* refreshToken and currentUser are what they were when it was called, a   *)
(* stale stored access token answered with 401 included.  Checked on the   *)
(* forms, whose calls never overlap.                                       *)
(***************************************************************************)
\* the call in slot s, a login() or register(), returns success=false in this step
LoginFails(s) ==
    /\ calls[s].op \in {"login", "register"}
    /\ calls'[s].op = "idle"
    /\ lastAuth'.result = "failure"

C30_FailedLoginKeepsSession ==
    [][\A s \in Slots : LoginFails(s) => session' = calls[s].before]_vars

\* C30, the part the code keeps: a failed login or register whose request led to
\* no successful refresh leaves the stored session as it was
C30_FailedWithoutRefresh ==
    [][\A s \in Slots :
          (LoginFails(s) /\ ~calls[s].refreshed) => session' = calls[s].before
      ]_vars

\* the case of the claim is reached: a login sent with a stored access token was
\* answered 401 and has returned success=false
C30_StaleTokenLoginFailed ==
    /\ lastAuth.op \in {"login", "register"} /\ lastAuth.result = "failure"
    /\ lastAuth.unauthorized


(***************************************************************************)
(* C27  Constructing the Cart never faults: whatever is stored under       *)
(* 'cart' (nothing, malformed JSON, JSON that is not a list such as null   *)
(* or an object, a list), the constructor returns with a list of lines     *)
(* (empty when the value is unusable) and the first projection of the UI   *)
(* has completed.                                                          *)
(***************************************************************************)
\* this step is the construction of the page's Cart from what is stored
CartConstructed == lastOp'.op = "load" /\ localStorage' = localStorage

\* the constructor returned and the badge shows the count of the lines
Projected == ~uncaught' /\ renders' = 1 /\ dom'.dataCount = <<getItemCount(items')>>

C27_ConstructorNeverFaults ==
    [][CartConstructed => Projected]_vars

\* C27, the part the code keeps: nothing stored, an empty text and malformed JSON
\* give an empty cart, a stored list gives its lines, and the projection completes
C27_UsableOrEmpty ==
    [][(CartConstructed /\ loadFromStorage_found(localStorage).isArray) =>
          /\ Projected
          /\ items' = IF IsForeign(localStorage) THEN << >>
                      ELSE loadFromStorage(localStorage)
      ]_vars

\* a page has been opened on a stored text that is JSON but not a list
C27_NonListFound ==
    /\ lastOp.op = "load"
    /\ IsForeign(localStorage) /\ localStorage[2] \in {"null", "{}"}
    /\ renders = 0

====
